---- MODULE Spec2Model ----
(***************************************************************************)
(* Model of the uptimer monitoring bot.                                    *)
(*                                                                         *)
(*   uptime_tracker.py  UptimeTracker: the hour-bucketed SQLite store      *)
(*   bot.py             MonitorBot: the status cache (_get_status) and the *)
(*                      metrics-refresh job (update_status)                *)
(*                                                                         *)
(*   monitor.py         ServerMonitor over ssh_client.py's SSHClient       *)
(*   config.py          Config._validate_hosts                             *)
(*                                                                         *)
(* Several specifications share the module: Spec (the uptime store),       *)
(* CacheSpec (concurrent _get_status calls), UpdateSpec (the initial post  *)
(* and the cycles of update_status), UptimeSpec (cycles of check_uptime),  *)
(* MonitorSpec (calls of a ServerMonitor), ConfigSpec (host validation    *)
(* and MonitorBot.__init__) and StartSpec (the ready event and the start   *)
(* of both jobs).  Each one leaves the other parts' variables untouched,   *)
(* but for the status cache, which the status messages' probes write, and  *)
(* for the ready event and the loops' start, which come before any cycle.  *)
(***************************************************************************)
EXTENDS Integers, Sequences, FiniteSets, TLC

VARIABLES
    now,        \* the wall clock, whole seconds (int(time.time()))
    table,      \* rows of uptime_history: [hostname, timestamp, status]
    ret,        \* the last store call, what it returned, and what it saw
    status_cache,   \* MonitorBot.status_cache: hostname -> {info, timestamp}
    call,           \* the _get_status calls under way, one per caller
    calls_begun,    \* how many _get_status calls have been made so far
    message_ids,    \* MonitorBot.message_ids: hostname -> message id
    ids_order,      \* the keys of message_ids in the dict's (insertion) order
    ids_file,       \* the content of MESSAGE_IDS_FILE
    channel,        \* the ids of the messages that exist in the channel
    next_message_id,    \* the id the channel gives the next message sent
    loop,           \* the tasks.loop that runs update_status
    task,           \* this cycle's _update_host_message work items
    cycle,          \* how many update_status cycles have begun
    post,           \* where post_initial_status is
    artifact_of,    \* message id -> the host whose status it was sent for
    up_loop,        \* the tasks.loop that runs check_uptime
    up_task,        \* this cycle's _check_single_uptime work items
    up_cycle,       \* how many check_uptime cycles have begun
    prunes,         \* cleanup_old_records calls made by the current cycle
    monitor,        \* the attributes of a ServerMonitor
    ssh,            \* the SSHClient made by the monitor's latest call
    mcall,          \* the monitor call in progress
    mcalls_begun,   \* how many monitor calls have begun
    result,         \* what the latest finished monitor call returned
    open_sessions,  \* connections that finished calls have left open
    embed,          \* the latest offline embed made for the monitor's host
    hosts_json,     \* the "hosts" list of hosts.json
    valid_hosts,    \* what Config.load_hosts returned
    config_pc,      \* "editing" the file, or "loaded"
    monitors,       \* MonitorBot.monitors as __init__ builds it, or its error
    ready,          \* the client's connection is ready
    jobs            \* the tasks.loop of each periodic job: how far it has come

storeVars == <<now, table, ret>>
cacheVars == <<status_cache, call, calls_begun>>
updateVars ==
    <<message_ids, ids_order, ids_file, channel, next_message_id, loop, task,
      cycle, post, artifact_of>>
uptimeVars == <<up_loop, up_task, up_cycle, prunes>>
monitorVars == <<monitor, ssh, mcall, mcalls_begun, result, open_sessions, embed>>
configVars == <<hosts_json, valid_hosts, config_pc, monitors>>
startVars == <<ready, jobs>>

(***************************************************************************)
(* Bounds and program constants                                            *)
(***************************************************************************)
Hosts == {"alpha", "beta"}

\* uptime_tracker.py: the literal 3600 of the bucket arithmetic
HourSeconds == 3600
\* uptime_tracker.py:146  days * 24 * 3600
DaySeconds == 24 * HourSeconds

\* The clock visits hour h of two consecutive days, at the start of the hour
\* and one second before its end, for h in 0..MaxHour.
Days == {0, 1}
MaxHour == 1
\* the store holds at most MaxRows rows
MaxRows == 2
\* window lengths 1..MaxWindow (hours), retention periods 0..MaxRetention (days)
MaxWindow == 2
MaxRetention == 1

SecondOffsets == {0, HourSeconds - 1}
TimePoints ==
    {d * DaySeconds + h * HourSeconds + s :
        d \in Days, h \in 0..MaxHour, s \in SecondOffsets}
WindowHours == 1..MaxWindow
RetentionDays == 0..MaxRetention

\* config.py: UPDATE_INTERVAL defaults to 60 seconds
UPDATE_INTERVAL == 60
\* While the cache is exercised the clock visits the start of refresh
\* interval k, for k in 0..MaxInterval, and the last second of the first.
MaxInterval == 1
CacheTimePoints ==
    {k * UPDATE_INTERVAL : k \in 0..MaxInterval} \cup {UPDATE_INTERVAL - 1}
\* concurrent callers of _get_status, and calls made in all
MaxCallers == 2
MaxCalls == 3
Callers == 1..MaxCallers
\* What a monitor's get_system_info returns: a snapshot, or None (Absent).
Absent == "None"
Snapshots == {"snapshot"}
Infos == Snapshots \cup {Absent}
\* What the probes made for the status messages answer while the jobs'
\* interleavings are explored: every probed host answers.
RefreshInfos == Snapshots

\* update_status runs at most MaxCycles cycles
MaxCycles == 1

\* config.py:27  UPDATE_SPREAD_SECONDS = 0.5, in tenths of a second
UPDATE_SPREAD_TENTHS == 5

\* bot.py:232  cleanup_old_records(days=7)
KEEP_DAYS == 7
\* check_uptime runs at most MaxUptimeCycles cycles.  While it is exercised
\* the clock visits the first hour of period p, for p in 0..MaxPeriod, at
\* its start and one second before its end; a period is a retention window
\* and an hour long, so what one period records the next one prunes.
MaxUptimeCycles == 2
MaxPeriod == 1
\* A ServerMonitor is called at most MaxMonitorCalls times.
MaxMonitorCalls == 2

\* hosts.json lists at most MaxEntries hosts.
MaxEntries == 2

UptimeTimePoints ==
    {p * (KEEP_DAYS * DaySeconds + HourSeconds) + s :
        p \in 0..MaxPeriod, s \in SecondOffsets}

NoCall == [op |-> "none"]

(***************************************************************************)
(* UptimeTracker                                                           *)
(***************************************************************************)

\* Bucket arithmetic, as "the nearest hour" of the comment would have it.
HourBucketNearest(t) == ((t + HourSeconds \div 2) \div HourSeconds) * HourSeconds

\* (current_time // 3600) * 3600
HourBucket(t) == (t \div HourSeconds) * HourSeconds

\* UNIQUE(hostname, timestamp): the rows a new row conflicts with
Conflicts(tbl, hostname, timestamp) ==
    {r \in tbl : r.hostname = hostname /\ r.timestamp = timestamp}

\* A plain INSERT into a table without the uniqueness constraint.
InsertOnly(tbl, hostname, timestamp, status) ==
    tbl \cup {[hostname |-> hostname, timestamp |-> timestamp, status |-> status]}

\* An upsert that lets an existing row stand (INSERT OR IGNORE).
InsertOrIgnore(tbl, hostname, timestamp, status) ==
    IF Conflicts(tbl, hostname, timestamp) # {}
    THEN tbl
    ELSE tbl \cup {[hostname |-> hostname, timestamp |-> timestamp, status |-> status]}

\* An upsert that replaces whatever the host had (conflict on hostname).
InsertOrReplaceHost(tbl, hostname, timestamp, status) ==
    {r \in tbl : r.hostname # hostname}
        \cup {[hostname |-> hostname, timestamp |-> timestamp, status |-> status]}

\* INSERT OR REPLACE INTO uptime_history (hostname, timestamp, status)
InsertOrReplace(tbl, hostname, timestamp, status) ==
    (tbl \ Conflicts(tbl, hostname, timestamp))
        \cup {[hostname |-> hostname, timestamp |-> timestamp, status |-> status]}

\* record_status(hostname, status); executes = FALSE is a sqlite3.Error in
\* execute/commit, which is logged and leaves the transaction uncommitted.
record_status(hostname, status, executes) ==
    LET current_time == now
        hour_timestamp == HourBucket(current_time)
        written == InsertOrReplace(table, hostname, hour_timestamp,
                                   IF status THEN 1 ELSE 0)
    IN  /\ table' = IF executes THEN written ELSE table
        /\ ret' = [op |-> "record_status", hostname |-> hostname,
                   status |-> status, time |-> current_time,
                   hour_timestamp |-> hour_timestamp, logged |-> ~executes,
                   replaced |-> IF executes
                                THEN Conflicts(table, hostname, hour_timestamp)
                                ELSE {}]
        /\ UNCHANGED now

\* WHERE hostname = ? AND timestamp > ?
SelectHistoryExclusive(tbl, hostname, start_time) ==
    {r \in tbl : r.hostname = hostname /\ r.timestamp > start_time}

\* WHERE hostname = ? AND timestamp >= ?
SelectHistory(tbl, hostname, start_time) ==
    {r \in tbl : r.hostname = hostname /\ r.timestamp >= start_time}

\* SELECT timestamp, status ... ORDER BY timestamp ASC
RECURSIVE OrderByTimestamp(_)
OrderByTimestamp(rows) ==
    IF rows = {}
    THEN <<>>
    ELSE LET first == CHOOSE r \in rows :
                        \A q \in rows : r.timestamp <= q.timestamp
         IN  <<(<<first.timestamp, first.status>>)>>
                \o OrderByTimestamp(rows \ {first})

\* get_history's result at clock reading current_time
History(tbl, hostname, hours, current_time) ==
    LET start_time == current_time - (hours * HourSeconds)
    IN  OrderByTimestamp(SelectHistory(tbl, hostname, start_time))

get_history(hostname, hours) ==
    /\ ret' = [op |-> "get_history", hostname |-> hostname, hours |-> hours,
               time |-> now, results |-> History(table, hostname, hours, now)]
    /\ UNCHANGED <<now, table>>

\* {ts: status for ts, status in history}: a later pair overrides an earlier
HistoryKeys(history) == {history[k][1] : k \in DOMAIN history}
HistoryDict(history) ==
    [ts \in HistoryKeys(history) |->
        LET last == CHOOSE k \in DOMAIN history :
                        /\ history[k][1] = ts
                        /\ \A j \in DOMAIN history : history[j][1] = ts => j <= k
        IN  history[last][2]]

\* Slots of a loop that runs over range(hours, 0, -1): one hour further back.
SlotTimestampOneBack(hours, i, current_time) ==
    HourBucket(current_time - ((hours - i) * HourSeconds))

\* The slot of loop index i (0-based), oldest first.
SlotTimestamp(hours, i, current_time) ==
    LET hour_offset == hours - i - 1
    IN  HourBucket(current_time - (hour_offset * HourSeconds))

\* A rendering that shows a slot without data as down.
SlotEmojiCoerced(history_dict, hour_timestamp) ==
    IF hour_timestamp \in DOMAIN history_dict /\ history_dict[hour_timestamp] = 1
    THEN "up"
    ELSE "down"

\* The emoji of one slot: green square, red square, white square.
SlotEmoji(history_dict, hour_timestamp) ==
    IF hour_timestamp \in DOMAIN history_dict
    THEN IF history_dict[hour_timestamp] = 1 THEN "up" ELSE "down"
    ELSE "unknown"

\* A renderer that returns the marker only for a host with no rows at all.
EmojiStringAnyHistory(tbl, hostname, hours, read1, read2) ==
    LET history == History(tbl, hostname, hours, read1)
        history_dict == HistoryDict(history)
    IN  IF \A r \in tbl : r.hostname # hostname
        THEN <<>>
        ELSE [k \in 1..hours |->
                SlotEmoji(history_dict, SlotTimestamp(hours, k - 1, read2))]

\* get_uptime_emoji's result: the history is read at clock reading read1,
\* the slots are computed from a second reading read2.  "" is <<>>.
EmojiString(tbl, hostname, hours, read1, read2) ==
    LET history == History(tbl, hostname, hours, read1)
        history_dict == HistoryDict(history)
    IN  IF history = <<>>
        THEN <<>>
        ELSE [k \in 1..hours |->
                SlotEmoji(history_dict, SlotTimestamp(hours, k - 1, read2))]

\* The clock may move between the two readings of one call.
get_uptime_emoji(hostname, hours, read2) ==
    /\ read2 \in TimePoints
    /\ now <= read2
    /\ read2 <= now + 1
    /\ now' = read2
    /\ ret' = [op |-> "get_uptime_emoji", hostname |-> hostname,
               hours |-> hours, time |-> now, time2 |-> read2,
               slots |-> [k \in 1..hours |-> SlotTimestamp(hours, k - 1, read2)],
               emoji_string |-> EmojiString(table, hostname, hours, now, read2)]
    /\ UNCHANGED table

\* DELETE ... WHERE timestamp <= ?
OlderThanInclusive(tbl, cutoff_time) == {r \in tbl : r.timestamp <= cutoff_time}

\* DELETE FROM uptime_history WHERE timestamp < ?
OlderThan(tbl, cutoff_time) == {r \in tbl : r.timestamp < cutoff_time}

cleanup_old_records(days) ==
    LET cutoff_time == now - (days * DaySeconds)
        deleted == OlderThan(table, cutoff_time)
    IN  /\ table' = table \ deleted
        /\ ret' = [op |-> "cleanup_old_records", days |-> days, time |-> now,
                   before |-> table, deleted_count |-> Cardinality(deleted)]
        /\ UNCHANGED now

\* The instant of `points` that follows t.
NextInstant(points, t) ==
    {u \in points : u > t /\ \A v \in points : v > t => u <= v}

\* Time passes between calls.
Tick ==
    /\ \E t \in NextInstant(TimePoints, now) : now' = t
    /\ ret' = NoCall
    /\ UNCHANGED table

StoreInit ==
    /\ now = 0
    /\ table = {}
    /\ ret = NoCall

(***************************************************************************)
(* MonitorBot._get_status                                                  *)
(***************************************************************************)
IdleCall == [pc |-> "idle"]

\* A cache that serves whatever entry it holds, also on a forced refresh.
ServedFromCacheIgnoringRefresh(cache, hostname, refresh, time) ==
    /\ hostname \in DOMAIN cache
    /\ time - cache[hostname].timestamp < UPDATE_INTERVAL

\* cached and not refresh and (now - cached["timestamp"] < UPDATE_INTERVAL)
ServedFromCache(cache, hostname, refresh, time) ==
    /\ hostname \in DOMAIN cache
    /\ ~refresh
    /\ time - cache[hostname].timestamp < UPDATE_INTERVAL

\* self.status_cache[hostname] = {"info": info, "timestamp": now}
CacheStore(cache, hostname, info, time) ==
    [h \in DOMAIN cache \cup {hostname} |->
        IF h = hostname
        THEN [info |-> info, timestamp |-> time]
        ELSE cache[h]]

\* create_status_embed(hostname, refresh=True) as the status messages' code
\* awaits it: _get_status probes the host and stores the answer (probed);
\* an exception raised by the probe leaves the cache as it is.
RefreshedCache(cache, hostname, probed, info, time) ==
    IF probed THEN CacheStore(cache, hostname, info, time) ELSE cache

\* _get_status up to its await: the lookup, the clock reading, and either
\* the return of the cached info or the dispatch of monitor.get_system_info.
GetStatusCall(c, hostname, refresh) ==
    /\ call[c].pc \in {"idle", "returned"}
    /\ calls_begun < MaxCalls
    /\ calls_begun' = calls_begun + 1
    /\ IF ServedFromCache(status_cache, hostname, refresh, now)
       THEN call' = [call EXCEPT ![c] =
                        [pc |-> "returned", hostname |-> hostname,
                         refresh |-> refresh, now |-> now, probes |-> 0,
                         info |-> status_cache[hostname].info]]
       ELSE call' = [call EXCEPT ![c] =
                        [pc |-> "probing", hostname |-> hostname,
                         refresh |-> refresh, now |-> now, probes |-> 1]]
    /\ UNCHANGED <<status_cache, storeVars>>

\* _get_status after its await: the monitor has answered; the entry is
\* overwritten with the answer and the clock reading taken before the probe.
GetStatusReturn(c, info) ==
    /\ call[c].pc = "probing"
    /\ status_cache' = CacheStore(status_cache, call[c].hostname, info, call[c].now)
    /\ call' = [call EXCEPT ![c] =
                    [pc |-> "returned", hostname |-> call[c].hostname,
                     refresh |-> call[c].refresh, now |-> call[c].now,
                     probes |-> call[c].probes, info |-> info]]
    /\ UNCHANGED <<calls_begun, storeVars>>

\* Time passes while calls are made and probes run.
CacheTick ==
    /\ \E t \in NextInstant(CacheTimePoints, now) : now' = t
    /\ UNCHANGED <<table, ret, cacheVars>>

CacheInit ==
    /\ status_cache = <<>>
    /\ call = [c \in Callers |-> IdleCall]
    /\ calls_begun = 0

(***************************************************************************)
(* MonitorBot.update_status and its work items _update_host_message        *)
(***************************************************************************)
NoTask == [pc |-> "none"]
\* self.message_ids[hostname] = id
\* The keys of a dict after d[h] = ...: a new key goes to the end, a key
\* already there keeps its place.
KeysAfterSet(keys, h) ==
    IF \E i \in 1..Len(keys) : keys[i] = h THEN keys ELSE Append(keys, h)
\* The keys among `kept` of a dict whose keys came in the order `order`.
KeysInOrder(order, kept) == SelectSeq(order, LAMBDA h : h \in kept)
\* enumerate(d.items()): the index of key h, counted from 0
IndexOf(keys, h) == (CHOOSE i \in 1..Len(keys) : keys[i] = h) - 1
\* index * Config.UPDATE_SPREAD_SECONDS, in tenths of a second
SpreadDelay(index) == index * UPDATE_SPREAD_TENTHS

SetAnchor(ids, h, id) ==
    [k \in DOMAIN ids \cup {h} |-> IF k = h THEN id ELSE ids[k]]
\* The channel's record of a message sent with the status embed of host h.
SentFor(sent, id, h) ==
    [m \in DOMAIN sent \cup {id} |-> IF m = id THEN h ELSE sent[m]]
\* A work item that is over: it returned, or it logged what it caught.
Finished == {"none", "done", "logged"}

\* Where an exception raised at position pc takes the work item: the try
\* body (fetch, embed, edit) falls under `except Exception`; what is raised
\* inside the `except discord.NotFound` handler leaves the coroutine.
\* The two periodic jobs, by the names of their tasks.loop.
Jobs == {"update_status", "check_uptime"}

\* A loop whose body runs whether or not it was started and is ready.
LoopRunsUnstarted(loops, job) == TRUE
\* tasks.loop: the body runs in the task made by start(), after before_loop
\* has returned.
LoopRuns(loops, job) == loops[job] = "running"

\* The connection becomes ready: the client sets its ready event and
\* dispatches on_ready.
ReadyEvent ==
    /\ ~ready
    /\ ready' = TRUE
    /\ UNCHANGED jobs

\* on_ready: self.update_status.start(); self.check_uptime.start()
StartLoops ==
    /\ ready
    /\ \A j \in Jobs : jobs[j] = "unstarted"
    /\ jobs' = [j \in Jobs |-> "started"]
    /\ UNCHANGED ready

\* before_update_status / before_check_uptime: await self.wait_until_ready()
BeforeLoop(job) ==
    /\ jobs[job] = "started"
    /\ ready
    /\ jobs' = [jobs EXCEPT ![job] = "running"]
    /\ UNCHANGED ready

StartInit ==
    /\ ready = FALSE
    /\ jobs = [j \in Jobs |-> "unstarted"]

AfterFailure(pc) ==
    IF pc \in {"fetch", "embed", "edit"} THEN "logged" ELSE "raised"

\* update_status, `if not channel: return`: the cycle does nothing.  (The
\* loop is started by on_ready and first runs when on_ready first suspends,
\* inside post_initial_status.)
UpdateStatusNoChannel ==
    /\ LoopRuns(jobs, "update_status")
    /\ loop = "waiting"
    /\ post.pc \notin {"off", "start"}
    /\ cycle < MaxCycles
    /\ cycle' = cycle + 1
    /\ UNCHANGED <<message_ids, ids_order, ids_file, channel, next_message_id,
                   loop, task, post, artifact_of>>

\* update_status up to `await asyncio.gather(*tasks)`: one work item per
\* entry of message_ids, each with the message id it was created with.
UpdateStatusBegin ==
    /\ LoopRuns(jobs, "update_status")
    /\ loop = "waiting"
    /\ post.pc \notin {"off", "start"}
    /\ cycle < MaxCycles
    /\ cycle' = cycle + 1
    /\ task' = [h \in Hosts |->
                    IF h \in DOMAIN message_ids
                    THEN [pc |-> "sleep", message_id |-> message_ids[h],
                          index |-> IndexOf(ids_order, h), slept |-> 0]
                    ELSE NoTask]
    /\ loop' = "gathering"
    /\ UNCHANGED <<message_ids, ids_order, ids_file, channel, next_message_id,
                 post, artifact_of>>

\* await asyncio.sleep(index * Config.UPDATE_SPREAD_SECONDS)
UpdateSleep(h) ==
    /\ task[h].pc = "sleep"
    /\ task' = [task EXCEPT ![h].pc = "fetch",
                             ![h].slept = SpreadDelay(task[h].index)]
    /\ UNCHANGED <<message_ids, ids_order, ids_file, channel, next_message_id,
                   loop, cycle, post, artifact_of>>

\* message = await channel.fetch_message(message_id)
UpdateFetch(h, outcome) ==
    /\ task[h].pc = "fetch"
    /\ outcome = "ok" => task[h].message_id \in channel
    /\ outcome = "not_found" => task[h].message_id \notin channel
    /\ task' = [task EXCEPT ![h].pc =
                    CASE outcome = "ok" -> "embed"
                      [] outcome = "not_found" -> "embed_not_found"
                      [] OTHER -> AfterFailure("fetch")]
    /\ UNCHANGED <<message_ids, ids_order, ids_file, channel, next_message_id,
                   loop, cycle, post, artifact_of>>

\* embed = await self.create_status_embed(hostname, refresh=True), in the
\* try body; it fails when the probe or the uptime query raises.
UpdateEmbed(h, ok, probed, info) ==
    /\ task[h].pc = "embed"
    /\ ok => probed
    /\ status_cache' = RefreshedCache(status_cache, h, probed, info, now)
    /\ task' = [task EXCEPT ![h].pc = IF ok THEN "edit" ELSE AfterFailure("embed")]
    /\ UNCHANGED <<message_ids, ids_order, ids_file, channel, next_message_id,
                   loop, cycle, post, artifact_of>>

\* await message.edit(embed=embed)
UpdateEdit(h, outcome) ==
    /\ task[h].pc = "edit"
    /\ outcome = "ok" => task[h].message_id \in channel
    /\ outcome = "not_found" => task[h].message_id \notin channel
    /\ task' = [task EXCEPT ![h].pc =
                    CASE outcome = "ok" -> "done"
                      [] outcome = "not_found" -> "embed_not_found"
                      [] OTHER -> AfterFailure("edit")]
    /\ UNCHANGED <<message_ids, ids_order, ids_file, channel, next_message_id,
                   loop, cycle, post, artifact_of>>

\* except discord.NotFound: embed = await self.create_status_embed(...)
UpdateEmbedNotFound(h, ok, probed, info) ==
    /\ task[h].pc = "embed_not_found"
    /\ ok => probed
    /\ status_cache' = RefreshedCache(status_cache, h, probed, info, now)
    /\ task' = [task EXCEPT ![h].pc =
                    IF ok THEN "send" ELSE AfterFailure("embed_not_found")]
    /\ UNCHANGED <<message_ids, ids_order, ids_file, channel, next_message_id,
                   loop, cycle, post, artifact_of>>

\* new_message = await channel.send(embed=embed);
\* self.message_ids[hostname] = new_message.id
UpdateSend(h, ok) ==
    /\ task[h].pc = "send"
    /\ IF ok
       THEN /\ channel' = channel \cup {next_message_id}
            /\ next_message_id' = next_message_id + 1
            /\ message_ids' = SetAnchor(message_ids, h, next_message_id)
            /\ ids_order' = KeysAfterSet(ids_order, h)
            /\ artifact_of' = SentFor(artifact_of, next_message_id, h)
            /\ task' = [task EXCEPT ![h].pc = "done"]
       ELSE /\ task' = [task EXCEPT ![h].pc = AfterFailure("send")]
            /\ UNCHANGED <<channel, next_message_id, message_ids, ids_order,
                           artifact_of>>
    /\ UNCHANGED <<ids_file, loop, cycle, post>>

\* gather returns once every work item has; self._save_message_ids() follows
\* (written = FALSE: the write fails, which _save_message_ids logs).
UpdateStatusEnd(written) ==
    /\ loop = "gathering"
    /\ \A h \in Hosts : task[h].pc \in Finished
    /\ ids_file' = IF written THEN message_ids ELSE ids_file
    /\ loop' = "waiting"
    /\ UNCHANGED <<message_ids, ids_order, channel, next_message_id, task,
                   cycle, post, artifact_of>>

\* gather re-raises the first exception a work item raised; update_status
\* has no handler, so the exception ends the tasks.loop.  The other work
\* items are not cancelled.
UpdateStatusRaises ==
    /\ loop = "gathering"
    /\ \E h \in Hosts : task[h].pc = "raised"
    /\ loop' = "stopped"
    /\ UNCHANGED <<message_ids, ids_order, ids_file, channel, next_message_id,
                   task, cycle, post, artifact_of>>

\* Somebody deletes a status message from the channel.
DeleteMessage(m) ==
    /\ m \in channel
    /\ channel' = channel \ {m}
    /\ UNCHANGED <<message_ids, ids_order, ids_file, next_message_id, loop,
                   task, cycle, post, artifact_of>>

(***************************************************************************)
(* MonitorBot.post_initial_status, run once by on_ready                    *)
(***************************************************************************)
\* self.monitors.keys(): the hosts in the order of the configuration
HostOrder == <<"alpha", "beta">>
\* message_id = self.message_ids.get(hostname); 0 stands for None
AnchorOf(ids, h) == IF h \in DOMAIN ids THEN ids[h] ELSE 0
PostOver(pc) == [pc |-> pc, i |-> 0, message_id |-> 0]
\* the head of the loop body for the i-th host, up to the await of the embed
PostAt(i, ids) ==
    [pc |-> "embed", i |-> i, message_id |-> AnchorOf(ids, HostOrder[i])]

\* The i-th host is dealt with: the loop goes to the next host, or ends and
\* self._save_message_ids() follows (written = FALSE: the write fails and
\* is logged).
PostContinue(i, ids, written) ==
    IF i < Len(HostOrder)
    THEN /\ post' = PostAt(i + 1, ids)
         /\ UNCHANGED ids_file
    ELSE /\ post' = PostOver("done")
         /\ ids_file' = IF written THEN ids ELSE ids_file

\* channel = self.get_channel(...); `if not channel: return`
PostBegin(found) ==
    /\ post.pc = "start"
    /\ post' = IF found THEN PostAt(1, message_ids) ELSE PostOver("done")
    /\ UNCHANGED <<message_ids, ids_order, ids_file, channel, next_message_id,
                   loop, task, cycle, artifact_of>>

\* embed = await self.create_status_embed(hostname, refresh=True); an
\* exception here leaves post_initial_status and on_ready.
PostEmbed(ok, probed, info) ==
    /\ post.pc = "embed"
    /\ ok => probed
    /\ status_cache' = RefreshedCache(status_cache, HostOrder[post.i], probed,
                                      info, now)
    /\ post' = IF ~ok THEN PostOver("raised")
               ELSE [post EXCEPT !.pc = IF post.message_id # 0 THEN "fetch"
                                        ELSE "send"]
    /\ UNCHANGED <<message_ids, ids_order, ids_file, channel, next_message_id,
                   loop, task, cycle, artifact_of>>

\* message = await channel.fetch_message(message_id); discord.NotFound is
\* passed over, any other exception is logged as a warning, and both fall
\* through to channel.send.
PostFetch(outcome) ==
    /\ post.pc = "fetch"
    /\ outcome = "ok" => post.message_id \in channel
    /\ outcome = "not_found" => post.message_id \notin channel
    /\ post' = [post EXCEPT !.pc = IF outcome = "ok" THEN "edit" ELSE "send"]
    /\ UNCHANGED <<message_ids, ids_order, ids_file, channel, next_message_id,
                   loop, task, cycle, artifact_of>>

\* await message.edit(embed=embed); continue
PostEdit(outcome, written) ==
    /\ post.pc = "edit"
    /\ outcome = "ok" => post.message_id \in channel
    /\ outcome = "not_found" => post.message_id \notin channel
    /\ IF outcome = "ok"
       THEN PostContinue(post.i, message_ids, written)
       ELSE post' = [post EXCEPT !.pc = "send"] /\ UNCHANGED ids_file
    /\ UNCHANGED <<message_ids, ids_order, channel, next_message_id, loop,
                   task, cycle, artifact_of>>

\* message = await channel.send(embed=embed);
\* self.message_ids[hostname] = message.id
PostSend(ok, written) ==
    /\ post.pc = "send"
    /\ IF ok
       THEN /\ channel' = channel \cup {next_message_id}
            /\ next_message_id' = next_message_id + 1
            /\ message_ids' =
                    SetAnchor(message_ids, HostOrder[post.i], next_message_id)
            /\ ids_order' = KeysAfterSet(ids_order, HostOrder[post.i])
            /\ artifact_of' =
                    SentFor(artifact_of, next_message_id, HostOrder[post.i])
            /\ PostContinue(post.i, message_ids', written)
       ELSE /\ post' = PostOver("raised")
            /\ UNCHANGED <<channel, next_message_id, message_ids, ids_order,
                           artifact_of, ids_file>>
    /\ UNCHANGED <<loop, task, cycle>>

\* MonitorBot.__init__ (the anchors are loaded) and on_ready from the start
\* of the loops to the call of post_initial_status:
\* the anchors are those of message_ids.json, absent on a first start; a
\* host anchored by an earlier run has its status message in the channel.
InitialMessageId(h) == IF h = "alpha" THEN 1 ELSE 2
\* A host that an earlier run monitored and the configuration no longer
\* lists, and the status message that run anchored for it.
RemovedHost == "gone"
RemovedHostMessageId == 9
\* message_ids.json as an earlier run left it.
SavedAnchors(anchored, stale) ==
    [h \in anchored \cup (IF stale THEN {RemovedHost} ELSE {}) |->
        IF h = RemovedHost THEN RemovedHostMessageId ELSE InitialMessageId(h)]
\* Anchors loaded with every entry of the file kept.
LoadedAnchorsUnfiltered(file, monitored) == file
\* {host: msg_id for host, msg_id in self.message_ids.items()
\*      if host in self.monitors}
LoadedAnchors(file, monitored) ==
    [h \in DOMAIN file \cap monitored |-> file[h]]
BotStart(anchored, stale) ==
    /\ \A j \in Jobs : jobs[j] # "unstarted"
    /\ post.pc = "off"
    /\ ids_file' = SavedAnchors(anchored, stale)
    /\ message_ids' = LoadedAnchors(ids_file', Hosts)
    /\ ids_order' = KeysInOrder(HostOrder, DOMAIN message_ids')
    /\ channel' = {InitialMessageId(h) : h \in anchored}
    /\ artifact_of' = [m \in channel' |->
                            CHOOSE h \in anchored : InitialMessageId(h) = m]
    /\ post' = PostOver("start")
    /\ UNCHANGED <<next_message_id, loop, task, cycle>>

\* Before the bot is started.
UpdateInit ==
    /\ message_ids = [h \in {} |-> 0]
    /\ ids_order = <<>>
    /\ ids_file = message_ids
    /\ channel = {}
    /\ artifact_of = [m \in {} |-> ""]
    /\ next_message_id = Cardinality(Hosts) + 1
    /\ loop = "waiting"
    /\ task = [h \in Hosts |-> NoTask]
    /\ cycle = 0
    /\ post = PostOver("off")

(* MonitorBot.check_uptime and its work items _check_single_uptime         *)
(***************************************************************************)
NoCheck == [pc |-> "none"]

\* A check that reports every host as up.
CheckOnlineAlwaysUp(connected) == TRUE

\* ServerMonitor.check_online: result = ssh.connect(); ssh.close();
\* return result.  (Every monitor of a running bot is a ServerMonitor.)
CheckOnline(connected) == connected

\* check_uptime up to `await asyncio.gather(*tasks)`: one work item per
\* monitor.
CheckUptimeBegin ==
    /\ LoopRuns(jobs, "check_uptime")
    /\ up_loop = "waiting"
    /\ up_cycle < MaxUptimeCycles
    /\ up_cycle' = up_cycle + 1
    /\ up_task' = [h \in Hosts |-> [pc |-> "sleep"]]
    /\ up_loop' = "gathering"
    /\ prunes' = 0
    /\ UNCHANGED storeVars

\* await asyncio.sleep(index * Config.UPDATE_SPREAD_SECONDS), then the
\* dispatch of monitor.check_online to a thread
CheckSleep(h) ==
    /\ up_task[h].pc = "sleep"
    /\ up_task' = [up_task EXCEPT ![h] = [pc |-> "check_online", checks |-> 1]]
    /\ UNCHANGED <<up_loop, up_cycle, prunes, storeVars>>

\* check_online has answered; record_status is called with the answer, its
\* statement executes or is logged.
CheckRecord(h, connected, executes) ==
    /\ up_task[h].pc = "check_online"
    /\ record_status(h, CheckOnline(connected), executes)
    /\ up_task' = [up_task EXCEPT ![h] =
                        [pc |-> "done", checks |-> up_task[h].checks,
                         connected |-> connected,
                         is_online |-> CheckOnline(connected),
                         time |-> now, recorded |-> executes]]
    /\ UNCHANGED <<up_loop, up_cycle, prunes>>

\* check_online has answered; record_status raises at
\* sqlite3.connect(self.db_path), which no try covers, and the exception
\* leaves _check_single_uptime.
CheckRecordRaises(h, connected) ==
    /\ up_task[h].pc = "check_online"
    /\ up_task' = [up_task EXCEPT ![h] =
                        [pc |-> "raised", checks |-> up_task[h].checks,
                         connected |-> connected,
                         is_online |-> CheckOnline(connected),
                         time |-> now, recorded |-> FALSE]]
    /\ UNCHANGED <<up_loop, up_cycle, prunes, storeVars>>

\* gather re-raises what a work item raised; check_uptime has no handler, so
\* the exception ends the tasks.loop before cleanup_old_records is reached.
CheckUptimeRaises ==
    /\ up_loop = "gathering"
    /\ \E h \in Hosts : up_task[h].pc = "raised"
    /\ up_loop' = "stopped"
    /\ UNCHANGED <<up_task, up_cycle, prunes, storeVars>>

\* gather returns once every work item has; then
\* deleted = self.uptime_tracker.cleanup_old_records(days=7)
CheckUptimePrune ==
    /\ up_loop = "gathering"
    /\ \A h \in Hosts : up_task[h].pc = "done"
    /\ cleanup_old_records(KEEP_DAYS)
    /\ prunes' = prunes + 1
    /\ up_loop' = "waiting"
    /\ UNCHANGED <<up_task, up_cycle>>

\* The same, when cleanup_old_records raises sqlite3.Error (it has no try):
\* nothing is deleted and the exception ends the tasks.loop.
CheckUptimePruneRaises ==
    /\ up_loop = "gathering"
    /\ \A h \in Hosts : up_task[h].pc = "done"
    /\ prunes' = prunes + 1
    /\ up_loop' = "stopped"
    /\ UNCHANGED <<up_task, up_cycle, storeVars>>

\* Time passes while the job runs and between its cycles.
UptimeTick ==
    /\ \E t \in NextInstant(UptimeTimePoints, now) : now' = t
    /\ UNCHANGED <<table, ret, uptimeVars>>

UptimeInit ==
    /\ up_loop = "waiting"
    /\ up_task = [h \in Hosts |-> NoCheck]
    /\ up_cycle = 0
    /\ prunes = 0

(***************************************************************************)
(* ServerMonitor over SSHClient                                            *)
(***************************************************************************)
None == "None"
\* getattr(obj, attr, default)
GetAttr(obj, attr, default) == IF attr \in DOMAIN obj THEN obj[attr] ELSE default

\* SSHClient.__init__: no paramiko client yet, no error yet
NewSSHClient == [client |-> FALSE, connected |-> FALSE, last_error |-> None]

\* How SSHClient.connect can end.  "key" can only fail where a key path is
\* configured; "auth" is paramiko.AuthenticationException, raised after the
\* transport to the host has been set up; "ssh" is another SSHException
\* (banner, key exchange) and "error" anything else (timeout, refused).
ConnectOutcomes == {"ok", "key", "auth", "ssh", "error"}

\* SSHClient.connect: self.client is created first; every failure is
\* caught, stored in self.last_error and answered with False.  After an
\* authentication failure the paramiko client still holds its transport.
SSHConnect(outcome) ==
    [client |-> TRUE,
     connected |-> outcome \in {"ok", "auth"},
     last_error |-> CASE outcome = "ok" -> None
                      [] outcome = "key" -> "Failed to load SSH key"
                      [] outcome = "auth" -> "Authentication failed"
                      [] OTHER -> "str(e)"]

\* SSHClient.close: if self.client: self.client.close(); self.client = None
SSHClose(s) ==
    IF s.client THEN [s EXCEPT !.client = FALSE, !.connected = FALSE] ELSE s

\* The metric fields in the order of the dict display of get_system_info.
FieldOrder == <<"cpu_model", "cpu_usage", "ram_total", "ram_used",
                "disk_total", "disk_usage", "process_count", "load_average">>
Fields == {FieldOrder[k] : k \in 1..Len(FieldOrder)}
Fallback(f) == IF f = "cpu_model" THEN "Unknown" ELSE "N/A"

\* What running one command can give: exec_command raises (a timeout, a
\* closed channel), or the command ends with an exit status, its stdout
\* and its stderr, both stripped.
CommandResults ==
    {[raised |-> TRUE, exit_status |-> 0, output |-> "", error |-> ""]}
    \cup [raised : {FALSE}, exit_status : {0, 1},
          output : {"", "7"}, error : {"", "err"}]

\* SSHClient.execute_command: <<success, output>>
ExecuteCommand(r) ==
    IF r.raised THEN <<FALSE, "str(e)">>
    ELSE IF r.exit_status # 0
         THEN <<FALSE, IF r.error # "" THEN r.error
                       ELSE IF r.output # "" THEN r.output ELSE "Exit status">>
         ELSE <<TRUE, IF r.output # "" THEN r.output ELSE r.error>>

\* float(output) and int(output) accept a numeral only.
IsNumeral(text) == text = "7"
\* f"{usage:.1f}%"
FormatPercent(text) == IF text = "7" THEN "7.0%" ELSE "?"
\* str(int(output) - 1)
CountLessHeader(text) == IF text = "7" THEN "6" ELSE "?"

\* A getter that lets a failed parse through.
GetFieldUnguarded(f, r) ==
    LET res == ExecuteCommand(r)
    IN  IF res[1] /\ res[2] # ""
        THEN CASE f = "cpu_usage" -> FormatPercent(res[2])
               [] f = "process_count" -> CountLessHeader(res[2])
               [] OTHER -> res[2]
        ELSE Fallback(f)

\* ServerMonitor._get_<field>(ssh): the command's output when it succeeded
\* with some output (converted for cpu_usage and process_count, whose
\* ValueError is passed over), else the fallback.
GetField(f, r) ==
    LET res == ExecuteCommand(r)
    IN  IF res[1] /\ res[2] # ""
        THEN CASE f = "cpu_usage" ->
                    IF IsNumeral(res[2]) THEN FormatPercent(res[2]) ELSE Fallback(f)
               [] f = "process_count" ->
                    IF IsNumeral(res[2]) THEN CountLessHeader(res[2]) ELSE Fallback(f)
               [] OTHER -> res[2]
        ELSE Fallback(f)

NoMonitor == [name |-> None]
IdleMonitor == [op |-> "none", pc |-> "idle"]
NoResult == [op |-> "none"]
NoEmbed == [title |-> "none"]

\* ServerMonitor.get_system_info up to the end of ssh.connect(): on failure
\* `return None`, with nothing closed; on success the try block is entered.
GetSystemInfoConnect(outcome) ==
    /\ monitor # NoMonitor
    /\ mcall.pc = "idle"
    /\ mcalls_begun < MaxMonitorCalls
    /\ outcome = "key" => monitor.key_path
    /\ mcalls_begun' = mcalls_begun + 1
    /\ ssh' = SSHConnect(outcome)
    /\ IF outcome = "ok"
       THEN /\ mcall' = [op |-> "get_system_info", pc |-> "fields", k |-> 1,
                         info |-> [f \in {} |-> ""]]
            /\ result' = NoResult
            /\ UNCHANGED open_sessions
       ELSE /\ mcall' = IdleMonitor
            /\ result' = [op |-> "get_system_info", returns |-> None]
            /\ open_sessions' = open_sessions + (IF ssh'.connected THEN 1 ELSE 0)
    /\ embed' = NoEmbed
    /\ UNCHANGED monitor

\* The next entry of the dict display: one command, one field (the command's
\* result is kept as `command`, for reference).  After the last one
\* `return info` runs the finally clause, ssh.close().
GetSystemInfoField(r) ==
    /\ mcall.pc = "fields"
    /\ LET f == FieldOrder[mcall.k]
           info == [g \in DOMAIN mcall.info \cup {f} |->
                        IF g = f THEN GetField(f, r) ELSE mcall.info[g]]
       IN  IF mcall.k < Len(FieldOrder)
           THEN /\ mcall' = [op |-> "get_system_info", pc |-> "fields",
                              k |-> mcall.k + 1, info |-> info, command |-> r]
                /\ UNCHANGED <<ssh, result>>
           ELSE /\ mcall' = IdleMonitor
                /\ ssh' = SSHClose(ssh)
                /\ result' = [op |-> "get_system_info", returns |-> "info",
                              value |-> info,
                              hostname |-> monitor.name, ip |-> monitor.ip,
                              online |-> TRUE, command |-> r]
    /\ UNCHANGED <<monitor, mcalls_begun, open_sessions, embed>>

\* ServerMonitor.check_online: result = ssh.connect(); ssh.close();
\* return result
CheckOnlineCall(outcome) ==
    /\ monitor # NoMonitor
    /\ mcall.pc = "idle"
    /\ mcalls_begun < MaxMonitorCalls
    /\ outcome = "key" => monitor.key_path
    /\ mcalls_begun' = mcalls_begun + 1
    /\ ssh' = SSHClose(SSHConnect(outcome))
    /\ result' = [op |-> "check_online", returns |-> "bool",
                  value |-> CheckOnline(outcome = "ok")]
    /\ open_sessions' = open_sessions + (IF ssh'.connected THEN 1 ELSE 0)
    /\ embed' = NoEmbed
    /\ UNCHANGED <<monitor, mcall>>

\* MonitorBot.create_status_embed, `if info is None:` the offline embed,
\* with an Error field when the monitor has a last_error attribute that is
\* set.
OfflineEmbed ==
    /\ result.op = "get_system_info" /\ result.returns = None
    /\ embed = NoEmbed
    /\ LET error_detail == GetAttr(monitor, "last_error", None)
       IN  embed' = [title |-> "offline", ip |-> monitor.ip,
                     names |-> {"IP", "Uptime (48h)"}
                               \cup (IF error_detail # None THEN {"Error"} ELSE {}),
                     error |-> error_detail]
    /\ UNCHANGED <<monitor, ssh, mcall, mcalls_begun, result, open_sessions>>

\* ServerMonitor.__init__: name, ip, port, username, key_path, password and
\* nothing else; a validated host has a key path or a password.
NewServerMonitor(k, p) ==
    /\ monitor = NoMonitor
    /\ k \/ p
    /\ monitor' = [name |-> "alpha", ip |-> "10.0.0.1", port |-> "22",
                   username |-> "root", key_path |-> k, password |-> p]
    /\ UNCHANGED <<ssh, mcall, mcalls_begun, result, open_sessions, embed>>

\* Before the monitor is made.
MonitorInit ==
    /\ monitor = NoMonitor
    /\ ssh = NewSSHClient
    /\ mcall = IdleMonitor
    /\ mcalls_begun = 0
    /\ result = NoResult
    /\ open_sessions = 0
    /\ embed = NoEmbed

(***************************************************************************)
(* Config._validate_hosts                                                  *)
(***************************************************************************)
\* The entries of hosts.json: each key is missing or empty (""), or set.
HostEntries ==
    [name : {"", "alpha", "beta"}, ip : {"", "10.0.0.1", "localhost"},
     ssh_user : {"", "root"}, ssh_key_path : {"", "~/.ssh/id_rsa"},
     ssh_password : {"", "secret"}]

\* The three `continue` tests of the loop body, in their order.
Skips(host, seen_names) ==
    \/ host.name = "" \/ host.ip = "" \/ host.ssh_user = ""
    \/ host.name \in seen_names
    \/ host.ssh_key_path = "" /\ host.ssh_password = ""

\* A loop that remembers the name of every entry it has looked at.
SeenNamesEager(seen_names, host, skipped) == seen_names \cup {host.name}

\* seen_names.add(name), reached by the entries that are not skipped
SeenNames(seen_names, host, skipped) ==
    IF skipped THEN seen_names ELSE seen_names \cup {host.name}

\* for host in hosts: ..., from the i-th entry on
RECURSIVE ValidateFrom(_, _, _, _)
ValidateFrom(hosts, i, valid, seen_names) ==
    IF i > Len(hosts) THEN valid
    ELSE LET host == hosts[i]
             skipped == Skips(host, seen_names)
         IN  ValidateFrom(hosts, i + 1,
                          IF skipped THEN valid ELSE Append(valid, host),
                          SeenNames(seen_names, host, skipped))

validate_hosts(hosts) == ValidateFrom(hosts, 1, <<>>, {})

\* Somebody adds an entry to hosts.json.
AppendHost(host) ==
    /\ config_pc = "editing"
    /\ Len(hosts_json) < MaxEntries
    /\ hosts_json' = Append(hosts_json, host)
    /\ UNCHANGED <<valid_hosts, config_pc, monitors>>

\* Config.load_hosts: return Config._validate_hosts(hosts)
LoadHosts ==
    /\ config_pc = "editing"
    /\ valid_hosts' = validate_hosts(hosts_json)
    /\ config_pc' = "loaded"
    /\ UNCHANGED <<hosts_json, monitors>>

\* The addresses for which MonitorBot.__init__ makes a LocalMonitor.
LocalAddresses == {"localhost", "127.0.0.1"}
TypeError == "TypeError"

\* LocalMonitor(**keywords): `def __init__(self)` has no parameter but self,
\* so a call with a keyword argument raises TypeError.
NewLocalMonitor(keywords) ==
    IF keywords = {} THEN [kind |-> "local"] ELSE [kind |-> TypeError]
\* ServerMonitor(host)
NewServerMonitorFor(host) == [kind |-> "remote", ip |-> host.ip]

\* The loop of MonitorBot.__init__ over self.hosts from its i-th entry on,
\* with the monitors built so far; the exception of a constructor leaves
\* __init__.
RECURSIVE BuildMonitors(_, _, _)
BuildMonitors(hosts, i, built) ==
    IF i > Len(hosts) THEN [pc |-> "built", monitors |-> built]
    ELSE LET host == hosts[i]
             m == IF host.ip \in LocalAddresses
                  THEN NewLocalMonitor({"name_override"})
                  ELSE NewServerMonitorFor(host)
         IN  IF m.kind = TypeError THEN [pc |-> "raised", error |-> TypeError]
             ELSE BuildMonitors(hosts, i + 1,
                     [n \in DOMAIN built \cup {host.name} |->
                         IF n = host.name THEN m ELSE built[n]])

NoBot == [pc |-> "none"]

\* MonitorBot(): self.hosts = Config.load_hosts(), then the monitors.
MonitorBotInit ==
    /\ config_pc = "loaded"
    /\ monitors = NoBot
    /\ monitors' = BuildMonitors(valid_hosts, 1, <<>>)
    /\ UNCHANGED <<hosts_json, valid_hosts, config_pc>>

ConfigInit ==
    /\ hosts_json = <<>>
    /\ valid_hosts = <<>>
    /\ config_pc = "editing"
    /\ monitors = NoBot

(***************************************************************************)
(* Specifications                                                          *)
(***************************************************************************)
vars == <<now, table, ret, status_cache, call, calls_begun,
          message_ids, ids_order, ids_file, channel, next_message_id, loop,
          task, cycle, post, artifact_of, up_loop, up_task, up_cycle, prunes,
          monitor, ssh, mcall, mcalls_begun, result, open_sessions, embed,
          hosts_json, valid_hosts, config_pc, monitors, ready, jobs>>

Init ==
    /\ StoreInit /\ CacheInit /\ UpdateInit /\ UptimeInit /\ MonitorInit
    /\ ConfigInit /\ StartInit

\* What each specification leaves alone.
notStore ==
    <<cacheVars, updateVars, uptimeVars, monitorVars, configVars,
      startVars>>
notCache ==
    <<updateVars, uptimeVars, monitorVars, configVars,
      startVars>>
notUpdate ==
    <<storeVars, cacheVars, uptimeVars, monitorVars, configVars,
      startVars>>
notUpdateButCache ==
    <<storeVars, call, calls_begun, uptimeVars, monitorVars, configVars,
      startVars>>
notUptime ==
    <<cacheVars, updateVars, monitorVars, configVars,
      startVars>>
notMonitor ==
    <<storeVars, cacheVars, updateVars, uptimeVars, configVars,
      startVars>>
notConfig ==
    <<storeVars, cacheVars, updateVars, uptimeVars, monitorVars,
      startVars>>

notStart ==
    <<storeVars, cacheVars, updateVars, uptimeVars, monitorVars, configVars>>

FetchOutcomes == {"ok", "not_found", "error"}

\* The metrics-refresh job: cycles of update_status and their work items.
UpdateNext ==
    \/ ReadyEvent /\ UNCHANGED notStart
    \/ StartLoops /\ UNCHANGED notStart
    \/ BeforeLoop("update_status") /\ UNCHANGED notStart
    \/ \E anchored \in SUBSET Hosts, stale \in BOOLEAN :
            BotStart(anchored, stale) /\ UNCHANGED notUpdate
    \/ \E f \in BOOLEAN : PostBegin(f) /\ UNCHANGED notUpdate
    \/ \E ok \in BOOLEAN, p \in BOOLEAN, i \in RefreshInfos :
            PostEmbed(ok, p, i) /\ UNCHANGED notUpdateButCache
    \/ \E o \in FetchOutcomes : PostFetch(o) /\ UNCHANGED notUpdate
    \/ \E o \in FetchOutcomes, w \in BOOLEAN : PostEdit(o, w) /\ UNCHANGED notUpdate
    \/ \E ok \in BOOLEAN, w \in BOOLEAN : PostSend(ok, w) /\ UNCHANGED notUpdate
    \/ UpdateStatusNoChannel /\ UNCHANGED notUpdate
    \/ UpdateStatusBegin /\ UNCHANGED notUpdate
    \/ \E h \in Hosts : UpdateSleep(h) /\ UNCHANGED notUpdate
    \/ \E h \in Hosts, o \in FetchOutcomes :
            UpdateFetch(h, o) /\ UNCHANGED notUpdate
    \/ \E h \in Hosts, ok \in BOOLEAN, p \in BOOLEAN, i \in RefreshInfos :
            UpdateEmbed(h, ok, p, i) /\ UNCHANGED notUpdateButCache
    \/ \E h \in Hosts, o \in FetchOutcomes :
            UpdateEdit(h, o) /\ UNCHANGED notUpdate
    \/ \E h \in Hosts, ok \in BOOLEAN, p \in BOOLEAN, i \in RefreshInfos :
            UpdateEmbedNotFound(h, ok, p, i) /\ UNCHANGED notUpdateButCache
    \/ \E h \in Hosts, ok \in BOOLEAN :
            UpdateSend(h, ok) /\ UNCHANGED notUpdate
    \/ \E w \in BOOLEAN :
            UpdateStatusEnd(w) /\ UNCHANGED notUpdate
    \/ UpdateStatusRaises /\ UNCHANGED notUpdate
    \/ \E m \in channel : DeleteMessage(m) /\ UNCHANGED notUpdate

UpdateSpec == Init /\ [][UpdateNext]_vars

\* The uptime store: any sequence of calls, for any hosts, at any times.
Next ==
    \/ \E h \in Hosts, s \in BOOLEAN, e \in BOOLEAN :
            /\ Cardinality(InsertOrReplace(table, h, HourBucket(now), 0)) <= MaxRows
            /\ record_status(h, s, e)
            /\ UNCHANGED notStore
    \/ \E h \in Hosts, w \in WindowHours :
            get_history(h, w) /\ UNCHANGED notStore
    \/ \E h \in Hosts, w \in WindowHours, t \in TimePoints :
            get_uptime_emoji(h, w, t) /\ UNCHANGED notStore
    \/ \E d \in RetentionDays :
            cleanup_old_records(d) /\ UNCHANGED notStore
    \/ Tick /\ UNCHANGED notStore

Spec == Init /\ [][Next]_vars

\* The status cache: callers of _get_status, concurrent on the event loop.
CacheNext ==
    \/ \E c \in Callers, h \in Hosts, r \in BOOLEAN :
            GetStatusCall(c, h, r) /\ UNCHANGED notCache
    \/ \E c \in Callers, i \in Infos :
            GetStatusReturn(c, i) /\ UNCHANGED notCache
    \/ CacheTick /\ UNCHANGED notCache

CacheSpec == Init /\ [][CacheNext]_vars

\* The liveness-recording job: cycles of check_uptime and their work items.
UptimeNext ==
    \/ ReadyEvent /\ UNCHANGED notStart
    \/ StartLoops /\ UNCHANGED notStart
    \/ BeforeLoop("check_uptime") /\ UNCHANGED notStart
    \/ CheckUptimeBegin /\ UNCHANGED notUptime
    \/ \E h \in Hosts : CheckSleep(h) /\ UNCHANGED notUptime
    \/ \E h \in Hosts, c \in BOOLEAN, e \in BOOLEAN :
            CheckRecord(h, c, e) /\ UNCHANGED notUptime
    \/ \E h \in Hosts, c \in BOOLEAN :
            CheckRecordRaises(h, c) /\ UNCHANGED notUptime
    \/ CheckUptimeRaises /\ UNCHANGED notUptime
    \/ CheckUptimePrune /\ UNCHANGED notUptime
    \/ CheckUptimePruneRaises /\ UNCHANGED notUptime
    \/ UptimeTick /\ UNCHANGED notUptime

UptimeSpec == Init /\ [][UptimeNext]_vars

\* The start of the bot: the ready event, on_ready, and both jobs up to
\* the probes and the writes of their work items.
StartNext ==
    \/ ReadyEvent /\ UNCHANGED notStart
    \/ StartLoops /\ UNCHANGED notStart
    \/ \E j \in Jobs : BeforeLoop(j) /\ UNCHANGED notStart
    \/ \E anchored \in SUBSET Hosts, stale \in BOOLEAN :
            BotStart(anchored, stale) /\ UNCHANGED notUpdate
    \/ \E f \in BOOLEAN : PostBegin(f) /\ UNCHANGED notUpdate
    \/ UpdateStatusNoChannel /\ UNCHANGED notUpdate
    \/ UpdateStatusBegin /\ UNCHANGED notUpdate
    \/ \E h \in Hosts : UpdateSleep(h) /\ UNCHANGED notUpdate
    \/ \E h \in Hosts, o \in FetchOutcomes :
            UpdateFetch(h, o) /\ UNCHANGED notUpdate
    \/ \E h \in Hosts, ok \in BOOLEAN, p \in BOOLEAN, i \in RefreshInfos :
            UpdateEmbed(h, ok, p, i) /\ UNCHANGED notUpdateButCache
    \/ CheckUptimeBegin /\ UNCHANGED notUptime
    \/ \E h \in Hosts : CheckSleep(h) /\ UNCHANGED notUptime
    \/ \E h \in Hosts, c \in BOOLEAN, e \in BOOLEAN :
            CheckRecord(h, c, e) /\ UNCHANGED notUptime

StartSpec == Init /\ [][StartNext]_vars

\* Calls of one ServerMonitor, and the offline embed made from their result.
MonitorNext ==
    \/ \E k \in BOOLEAN, p \in BOOLEAN :
            NewServerMonitor(k, p) /\ UNCHANGED notMonitor
    \/ \E o \in ConnectOutcomes : GetSystemInfoConnect(o) /\ UNCHANGED notMonitor
    \/ \E r \in CommandResults : GetSystemInfoField(r) /\ UNCHANGED notMonitor
    \/ \E o \in ConnectOutcomes : CheckOnlineCall(o) /\ UNCHANGED notMonitor
    \/ OfflineEmbed /\ UNCHANGED notMonitor

MonitorSpec == Init /\ [][MonitorNext]_vars

\* hosts.json is written, then loaded.
ConfigNext ==
    \/ \E host \in HostEntries : AppendHost(host) /\ UNCHANGED notConfig
    \/ LoadHosts /\ UNCHANGED notConfig
    \/ MonitorBotInit /\ UNCHANGED notConfig

ConfigSpec == Init /\ [][ConfigNext]_vars

(***************************************************************************)
(* Claims about the uptime store                                           *)
(***************************************************************************)

\* The rows of host h in the hour that contains instant t.
RowsInHourOf(h, t) ==
    {r \in table : /\ r.hostname = h
                   /\ r.timestamp <= t
                   /\ t < r.timestamp + HourSeconds}

\* b is floor(t / 3600) * 3600: the multiple of 3600 with b <= t < b + 3600.
IsHourFloor(b, t) ==
    /\ b % HourSeconds = 0
    /\ b <= t
    /\ t < b + HourSeconds

\* C1: in every reachable state of the store there is at most one record per
\* (host, hour_bucket) pair.
C1_OneRecordPerHostHour ==
    \A r1, r2 \in table :
        (r1.hostname = r2.hostname /\ r1.timestamp = r2.timestamp) => r1 = r2

\* A second observation in the same hour has replaced the first, while the
\* other host has a record of its own.
C1_Witness ==
    /\ ret.op = "record_status"
    /\ ret.replaced # {}
    /\ \E r \in table : r.hostname # ret.hostname

\* C2: last write wins within an hour: after record_status(h, s) has executed,
\* the store holds exactly one record for (h, bucket) and its status is s.
C2_LastWriteWins ==
    (ret.op = "record_status" /\ ~ret.logged) =>
        /\ Cardinality(RowsInHourOf(ret.hostname, ret.time)) = 1
        /\ \A r \in RowsInHourOf(ret.hostname, ret.time) :
                r.status = (IF ret.status THEN 1 ELSE 0)

\* record_status(h, true) then record_status(h, false) in the same hour.
C2_Witness ==
    /\ ret.op = "record_status"
    /\ ret.status = FALSE
    /\ \E r \in ret.replaced : r.status = 1
    /\ \E r \in table : r.hostname = ret.hostname /\ r.status = 0

\* The symbol the claim expects at 0-based position i of a rendering of
\* host h over `hours` slots that end at the hour containing t.
ExpectedSymbol(h, hours, i, t) ==
    LET b == HourBucket(t) - (hours - 1 - i) * HourSeconds
    IN  IF \E r \in table : r.hostname = h /\ r.timestamp = b /\ r.status = 1
        THEN "up"
        ELSE IF \E r \in table :
                    r.hostname = h /\ r.timestamp = b /\ r.status = 0
             THEN "down"
             ELSE "unknown"

\* The host has a record at or after the cutoff of its window.
HasRecordInWindow(h, hours, t) ==
    \E r \in table : r.hostname = h /\ r.timestamp >= t - hours * HourSeconds

\* C3: for a host with at least one record in the window, get_uptime_emoji
\* returns exactly `hours` symbols, oldest first; position i is up or down
\* exactly when a record with that status exists for the bucket
\* bucket(now) - (hours-1-i)*3600, and unknown otherwise.  (now is the clock
\* reading from which the slots are computed.)
C3_RenderIsGapAware ==
    (ret.op = "get_uptime_emoji"
        /\ HasRecordInWindow(ret.hostname, ret.hours, ret.time)) =>
        /\ Len(ret.emoji_string) = ret.hours
        /\ \A i \in 0..(ret.hours - 1) :
                ret.emoji_string[i + 1] =
                    ExpectedSymbol(ret.hostname, ret.hours, i, ret.time2)

\* A rendering with a known slot next to a slot without data.
C3_Witness ==
    /\ ret.op = "get_uptime_emoji"
    /\ Len(ret.emoji_string) = ret.hours
    /\ \E i, j \in 1..ret.hours :
            /\ ret.emoji_string[i] = "unknown"
            /\ ret.emoji_string[j] = "down"

\* C4 as claimed: the empty-render marker is returned exactly when the host
\* has no record at all in the store; otherwise `hours` symbols are returned.
C4_MarkerIffNoRecordAtAll ==
    ret.op = "get_uptime_emoji" =>
        /\ (ret.emoji_string = <<>>)
                <=> (\A r \in table : r.hostname # ret.hostname)
        /\ (ret.emoji_string # <<>>) => Len(ret.emoji_string) = ret.hours

\* C4, amended: the empty-render marker is returned exactly when the host has
\* no record with bucket >= now - hours*3600 (the history get_history
\* retrieves); otherwise `hours` symbols are returned, possibly all unknown.
C4_MarkerIffNoRecordInWindow ==
    ret.op = "get_uptime_emoji" =>
        /\ (ret.emoji_string = <<>>)
                <=> ~HasRecordInWindow(ret.hostname, ret.hours, ret.time)
        /\ (ret.emoji_string # <<>>) => Len(ret.emoji_string) = ret.hours

\* The marker is returned for a host whose only records are older than the
\* window.
C4_Witness ==
    /\ ret.op = "get_uptime_emoji"
    /\ ret.emoji_string = <<>>
    /\ \E r \in table : r.hostname = ret.hostname

\* C5: cleanup_old_records(days) deletes all and only the records, of every
\* host, whose bucket is strictly less than now - days*86400; a record at the
\* boundary is retained; the value returned is the number of records deleted.
C5_PruneIsExact ==
    ret.op = "cleanup_old_records" =>
        LET boundary == ret.time - ret.days * DaySeconds
        IN  /\ table = {r \in ret.before : r.timestamp >= boundary}
            /\ ret.deleted_count = Cardinality(ret.before \ table)

\* A prune that deletes a record and retains one at exactly the boundary.
C5_Witness ==
    /\ ret.op = "cleanup_old_records"
    /\ ret.days >= 1
    /\ ret.deleted_count >= 1
    /\ \E r \in table : r.timestamp = ret.time - ret.days * DaySeconds

\* C6: get_history(host, hours) returns exactly the (bucket, status) records
\* of that host with bucket >= now - hours*3600, in strictly ascending bucket
\* order; an empty sequence when there are none; never another host's record.
C6_HistoryIsWindowAscending ==
    ret.op = "get_history" =>
        LET wanted == {<<r.timestamp, r.status>> :
                        r \in {q \in table :
                                /\ q.hostname = ret.hostname
                                /\ q.timestamp >= ret.time - ret.hours * HourSeconds}}
        IN  /\ {ret.results[k] : k \in DOMAIN ret.results} = wanted
            /\ Len(ret.results) = Cardinality(wanted)
            /\ \A j, k \in DOMAIN ret.results :
                    j < k => ret.results[j][1] < ret.results[k][1]

\* A history of two records, the older of which lies exactly on the cutoff.
C6_Witness ==
    /\ ret.op = "get_history"
    /\ Len(ret.results) = 2
    /\ ret.results[1][1] = ret.time - ret.hours * HourSeconds
    /\ ret.results[1][1] < ret.results[2][1]

C8_TwoCallsProbeAtMostOnce ==
    \A c1, c2 \in Callers :
        (/\ c1 # c2
         /\ call[c1].pc # "idle" /\ call[c2].pc # "idle"
         /\ call[c1].hostname = call[c2].hostname
         /\ ~call[c1].refresh /\ ~call[c2].refresh
         /\ call[c1].now <= call[c2].now
         /\ call[c2].now - call[c1].now < UPDATE_INTERVAL)
            => call[c1].probes + call[c2].probes <= 1

\* C9: a _get_status call with refresh=True invokes the monitor exactly once,
\* whatever the cache holds, and when it returns the host's entry is the
\* value returned (snapshot or None) with the call's clock reading.
C9_ForcedRefreshProbesAndOverwrites ==
    [][\A c \in Callers :
        (call'[c] # call[c] /\ call'[c].pc # "idle" /\ call'[c].refresh) =>
            /\ call'[c].probes = 1
            /\ call'[c].pc = "returned" =>
                    /\ call'[c].hostname \in DOMAIN status_cache'
                    /\ status_cache'[call'[c].hostname] =
                            [info |-> call'[c].info, timestamp |-> call'[c].now]
      ]_vars

\* A forced refresh returned None and cached it, although another caller
\* had just been served the host's entry from the cache.
C9_Witness ==
    \E c1, c2 \in Callers :
        /\ call[c1].pc = "returned" /\ call[c1].refresh
        /\ call[c1].info = Absent
        /\ call[c1].hostname \in DOMAIN status_cache
        /\ status_cache[call[c1].hostname] =
                [info |-> Absent, timestamp |-> call[c1].now]
        /\ call[c2].pc = "returned" /\ ~call[c2].refresh
        /\ call[c2].hostname = call[c1].hostname
        /\ call[c2].probes = 0
        /\ call[c2].info # Absent
        /\ call[c2].now <= call[c1].now

(***************************************************************************)
(* Claims about the metrics-refresh job                                    *)
(***************************************************************************)

\* C10: in every cycle of update_status a failure of one host's work item
\* at any step is caught and logged inside that work item: no work item
\* lets an exception out, and the job is never stopped, so the cycle goes
\* on to save the anchors and later cycles run.
C10_WorkItemFailureIsContained ==
    /\ \A h \in Hosts : task[h].pc # "raised"
    /\ loop # "stopped"

(***************************************************************************)
(* Claims about the liveness-recording job                                 *)
(***************************************************************************)

\* C11: a persistence failure raised while opening the store or executing a
\* statement, in record_status or in the prune, is logged and only that
\* record or prune is skipped: no work item lets it out and the
\* liveness-recording job is never stopped by it.
C11_StoreErrorIsContained ==
    /\ \A h \in Hosts : up_task[h].pc # "raised"
    /\ up_loop # "stopped"

\* C12: in every cycle each host's work item calls check_online once and
\* forwards its boolean to record_status: when the work item ends with its
\* record written, the store's record for (host, current bucket) is that
\* boolean, and a host that could not be connected to is recorded as down.
C12_ReachabilityIsRecorded ==
    [][\A h \in Hosts :
        (up_task[h].pc = "check_online" /\ up_task'[h].pc = "done"
            /\ up_task'[h].recorded) =>
            /\ up_task'[h].checks = 1
            /\ \E r \in table' :
                    /\ r.hostname = h
                    /\ r.timestamp <= now /\ now < r.timestamp + HourSeconds
                    /\ r.status = (IF up_task'[h].connected THEN 1 ELSE 0)
            /\ \A r \in table' :
                    (r.hostname = h /\ r.timestamp <= now
                        /\ now < r.timestamp + HourSeconds)
                        => r.status = (IF up_task'[h].connected THEN 1 ELSE 0)
      ]_vars

\* An unreachable host has been recorded as down, in the second half of an
\* hour, over a record that said up.
C12_Witness ==
    \E h \in Hosts :
        /\ up_task[h].pc = "done" /\ up_task[h].recorded
        /\ ~up_task[h].connected
        /\ ret.op = "record_status" /\ ret.hostname = h
        /\ \E r \in ret.replaced : r.status = 1
        /\ \E r \in table : r.hostname = h /\ r.status = 0

\* C13: in every cycle cleanup_old_records(7) is invoked exactly once, and
\* only after every host's work item of that cycle has finished.
C13_PruneOncePerCycle ==
    /\ (up_cycle > 0 /\ up_loop # "gathering") => prunes = 1
    /\ prunes > 0 => \A h \in Hosts : up_task[h].pc = "done"

(***************************************************************************)
(* Claims about the status messages and their anchors                      *)
(***************************************************************************)

\* C14: every cycle of update_status has a work item for every monitored
\* host, whether or not the host has an anchor in message_ids.
C14_EveryHostIsRefreshed ==
    loop = "gathering" => \A h \in Hosts : task[h].pc # "none"

\* Host h is anchored to a status message that exists in the channel.
HasLiveAnchor(h) == h \in DOMAIN message_ids /\ message_ids[h] \in channel

\* C15: while the status message a host is anchored to still exists in the
\* channel, no step of the initial post or of a refresh cycle, whatever
\* fetches and edits fail, sends a second status message for that host.
C15_NoSecondArtifact ==
    [][\A h \in Hosts :
        HasLiveAnchor(h) =>
            ~(/\ next_message_id' = next_message_id + 1
              /\ artifact_of'[next_message_id] = h)
      ]_vars

(***************************************************************************)
(* Claims about the remote monitor                                         *)
(***************************************************************************)

\* C16: when get_system_info has returned None because the connection
\* failed, the diagnostic of that failure is attached to the monitor, and
\* the offline embed made for the host carries it.
C16_OfflineEmbedCarriesDiagnostic ==
    embed # NoEmbed =>
        /\ ssh.last_error # None
        /\ GetAttr(monitor, "last_error", None) = ssh.last_error
        /\ "Error" \in embed.names
        /\ embed.error = ssh.last_error

\* C17: every call of get_system_info and of check_online has closed the
\* session it opened by the time it returns, on every exit path, so no
\* session is left open after any sequence of calls.
C17_NoSessionLeftOpen ==
    /\ open_sessions = 0
    /\ mcall.pc = "idle" => (~ssh.client /\ ~ssh.connected)

\* What a command's result means for its field: the command failed (raised,
\* timed out, nonzero exit status), gave no output at all, or gave output
\* that the field's conversion rejects.
EffectiveOutput(r) == IF r.output # "" THEN r.output ELSE r.error
NumericFields == {"cpu_usage", "process_count"}
Degraded(f, r) ==
    \/ r.raised
    \/ r.exit_status # 0
    \/ EffectiveOutput(r) = ""
    \/ f \in NumericFields /\ EffectiveOutput(r) # "7"
Extracted(f, r) ==
    CASE f = "cpu_usage" -> "7.0%"
      [] f = "process_count" -> "6"
      [] OTHER -> EffectiveOutput(r)

HasRequired(host) == host.name # "" /\ host.ip # "" /\ host.ssh_user # ""
HasAuth(host) == host.ssh_key_path # "" \/ host.ssh_password # ""
\* The positions of hosts.json that are to be kept: the entry is complete
\* and no complete entry before it has its name.
KeptPositions ==
    {i \in 1..Len(hosts_json) :
        /\ HasRequired(hosts_json[i]) /\ HasAuth(hosts_json[i])
        /\ \A j \in 1..(i - 1) :
                (HasRequired(hosts_json[j]) /\ HasAuth(hosts_json[j]))
                    => hosts_json[j].name # hosts_json[i].name}

\* C19: for any list of entries, load_hosts returns exactly the entries
\* that are complete and do not repeat the name of an accepted entry, in
\* their original order; the names returned are pairwise distinct; an
\* invalid entry makes no valid entry disappear.
C19_InvalidEntriesDropIndividually ==
    config_pc = "loaded" =>
        /\ Len(valid_hosts) = Cardinality(KeptPositions)
        /\ \A i \in KeptPositions :
                valid_hosts[Cardinality({j \in KeptPositions : j <= i})]
                    = hosts_json[i]
        /\ \A a, b \in 1..Len(valid_hosts) :
                a # b => valid_hosts[a].name # valid_hosts[b].name

\* An entry without authentication was dropped, and the valid entry of the
\* same name after it was kept.
C19_Witness ==
    /\ config_pc = "loaded"
    /\ Len(hosts_json) = 2
    /\ HasRequired(hosts_json[1]) /\ ~HasAuth(hosts_json[1])
    /\ hosts_json[2].name = hosts_json[1].name
    /\ valid_hosts = <<hosts_json[2]>>

\* C20: an entry is accepted only if exactly one of ssh_key_path and
\* ssh_password is configured; with neither or with both it is dropped.
C20_ExactlyOneAuthMethod ==
    config_pc = "loaded" =>
        \A a \in 1..Len(valid_hosts) :
            (valid_hosts[a].ssh_key_path # "") # (valid_hosts[a].ssh_password # "")

(***************************************************************************)
(* Further claims about the uptime store                                   *)
(***************************************************************************)

\* C27: every slot get_uptime_emoji looks up is an hour bucket at or above
\* the cutoff (first clock reading minus hours * 3600) of the history it
\* read, so a record stored at a rendered slot is shown with its status,
\* never as unknown; and the newest slot is the hour bucket of the reading
\* the slots are computed from, the one record_status writes at that
\* instant.
C27_SlotsLieInsideTheWindow ==
    ret.op = "get_uptime_emoji" =>
        /\ \A k \in 1..ret.hours :
                /\ ret.slots[k] % HourSeconds = 0
                /\ ret.slots[k] >= ret.time - ret.hours * HourSeconds
                /\ \A r \in table :
                        (r.hostname = ret.hostname /\ r.timestamp = ret.slots[k])
                            => /\ Len(ret.emoji_string) = ret.hours
                               /\ ret.emoji_string[k] =
                                    (IF r.status = 1 THEN "up" ELSE "down")
        /\ IsHourFloor(ret.slots[ret.hours], ret.time2)

\* A rendering, made inside an hour, whose oldest slot holds a record.
C27_Witness ==
    /\ ret.op = "get_uptime_emoji"
    /\ ret.hours >= 2
    /\ ret.time % HourSeconds # 0
    /\ \E r \in table :
            /\ r.hostname = ret.hostname
            /\ r.timestamp = ret.slots[1]
            /\ ret.emoji_string[1] \in {"up", "down"}

\* C28: a step of record_status leaves every record of another host and
\* every record of the same host in another hour bucket as it was, adds no
\* record but the one of (host, bucket of the call), and leaves the whole
\* store as it was when its statement fails.
C28_RecordStatusFrame ==
    [][ret'.op = "record_status" =>
        /\ IsHourFloor(ret'.hour_timestamp, ret'.time)
        /\ \A r \in table \cup table' :
                (r.hostname # ret'.hostname \/ r.timestamp # ret'.hour_timestamp)
                    => (r \in table <=> r \in table')
        /\ ret'.logged => table' = table
      ]_vars

\* A record has been overwritten while the host's record of another hour
\* stands.
C28_Witness ==
    /\ ret.op = "record_status" /\ ~ret.logged
    /\ ret.replaced # {}
    /\ \E r \in table :
            r.hostname = ret.hostname /\ r.timestamp # ret.hour_timestamp

(***************************************************************************)
(* Further claims about the status cache                                   *)
(***************************************************************************)

\* C25: whatever calls of _get_status overlap, a host's cache entry is
\* never moved backwards: no step replaces it by an entry with an earlier
\* timestamp (nor removes it).
C25_CacheTimestampNeverDecreases ==
    [][\A h \in DOMAIN status_cache :
        /\ h \in DOMAIN status_cache'
        /\ status_cache'[h].timestamp >= status_cache[h].timestamp
      ]_vars

(***************************************************************************)
(* Further claims about the status messages                                *)
(***************************************************************************)

\* The status messages sent for host h since the bot was started.
SentSinceStart(h) ==
    {m \in DOMAIN artifact_of : m > Cardinality(Hosts) /\ artifact_of[m] = h}

\* C26: the initial post and the first cycle of update_status, which run
\* interleaved, never both send a new status message for the same host
\* (two messages of which none was deleted were not sent one in place of the
\* other);
\* and once both are over, a host for which a message was sent is anchored
\* to that one message.
C26_InitialPostAndFirstCycleAgree ==
    cycle <= 1 =>
        \A h \in Hosts :
            /\ SentSinceStart(h) \subseteq channel
                    => Cardinality(SentSinceStart(h)) <= 1
            /\ (post.pc = "done" /\ loop = "waiting" /\ SentSinceStart(h) # {})
                    => (h \in DOMAIN message_ids
                            /\ message_ids[h] \in SentSinceStart(h))

\* C24: in every state of the bot the anchors and the status cache hold
\* entries only for monitored hosts, one per host at most: the anchor of a
\* host no longer monitored is dropped when message_ids.json is loaded, and
\* the cache never holds more entries than there are hosts.
C24_AnchorsAndCacheOfMonitoredHosts ==
    /\ DOMAIN message_ids \subseteq Hosts
    /\ RemovedHost \notin DOMAIN message_ids
    /\ DOMAIN status_cache \subseteq Hosts
    /\ Cardinality(DOMAIN status_cache) <= Cardinality(Hosts)

\* The file left by an earlier run names a removed host, the bot has loaded
\* it, anchored every monitored host and cached a probe of each.
C24_Witness ==
    /\ RemovedHost \in DOMAIN ids_file
    /\ post.pc = "done"
    /\ DOMAIN message_ids = Hosts
    /\ DOMAIN status_cache = Hosts

(***************************************************************************)
(* Further claims about the start of the bot                               *)
(***************************************************************************)

\* The names of the entries of a host list.
NamesOf(hosts) == {hosts[i].name : i \in 1..Len(hosts)}

\* C23: MonitorBot.__init__ succeeds for every validated host list and
\* builds one monitor per validated entry, under the entry's name: a local
\* one for the address localhost or 127.0.0.1, a remote one otherwise.
C23_OneMonitorPerValidatedHost ==
    monitors # NoBot =>
        /\ monitors.pc = "built"
        /\ DOMAIN monitors.monitors = NamesOf(valid_hosts)
        /\ \A i \in 1..Len(valid_hosts) :
                monitors.monitors[valid_hosts[i].name].kind =
                    (IF valid_hosts[i].ip \in LocalAddresses
                     THEN "local" ELSE "remote")

(***************************************************************************)
(* Further claims about the periodic jobs                                  *)
(***************************************************************************)

\* C21: in a cycle of update_status the work item of the host at index i of
\* the host list goes on to its request no earlier than i times the spread
\* after the start of the cycle: a work item that has left its sleep has
\* slept for that long at least.
C21_WorkItemsAreStaggeredByHostIndex ==
    \A h \in Hosts :
        task[h].pc \notin {"none", "sleep"}
            => task[h].slept >= SpreadDelay(IndexOf(HostOrder, h))

\* A cycle of job j has begun, or one of its work items exists.
BodyHasRun(j) ==
    IF j = "update_status"
    THEN cycle > 0 \/ loop # "waiting" \/ \E h \in Hosts : task[h] # NoTask
    ELSE up_cycle > 0 \/ up_loop # "waiting"
            \/ \E h \in Hosts : up_task[h] # NoCheck

\* C22: neither job runs the body of a cycle before the connection is ready:
\* whenever a cycle has begun, a work item has probed, the cache or the
\* store has been written, the ready event has happened.
C22_NoCycleBeforeReady ==
    ((\E j \in Jobs : BodyHasRun(j)) \/ status_cache # <<>> \/ table # {})
        => ready

\* Both jobs have run a cycle's body after the ready event: the refresh job
\* has probed a host and cached its answer, the liveness job has recorded a
\* status.
C22_Witness ==
    /\ ready
    /\ \A j \in Jobs : BodyHasRun(j)
    /\ status_cache # <<>>
    /\ table # {}
====
